---- MODULE Spec2Model ----
(***************************************************************************)
(* The two ProductionPlan classes of the repository:                       *)
(*   src/src/single-source/index.js     (fields _adjustments, _production) *)
(*   src/src/multiple-sources/index.js  (fields _initialProduction,        *)
(*                                       _adjustments)                     *)
(* One plan object is alive in a behaviour; variant says of which class.   *)
(*                                                                         *)
(* JavaScript values.  A number is an IEEE-754 double.  The model carries  *)
(* the doubles of the form h * 2^53 + l with h and l small integers, as    *)
(* the pair (h, l): h = 0 are the small (exactly representable) integers,  *)
(* h # 0 are the integers around multiples of 2^53, where doubles are      *)
(* spaced by 2, 4, 8, ...  and an addition rounds to the nearest double,   *)
(* ties to the even mantissa.                                              *)
(***************************************************************************)
EXTENDS Integers, Sequences, FiniteSets

\* Longest adjustments array the model builds.
MaxLen == 3
\* Small amounts are the integers -MaxAmount .. MaxAmount.
MaxAmount == 1
\* Most consecutive getter reads between two mutations.
MaxReads == 2

VARIABLES
    variant,    \* "single" | "multi": the class the plan is an instance of
    ctorArg,    \* the argument the constructor was called with
    plan,       \* the object: a record of its fields
    applied,    \* every adjustment handed to applyAdjustment, in call order
    lastOp,     \* the operation that ran last
    lastRead,   \* what the last getter read returned (NoRead after a mutation)
    reads       \* getter reads since the last mutation

vars == <<variant, ctorArg, plan, applied, lastOp, lastRead, reads>>

----------------------------------------------------------------------------
(* JavaScript values *)

Number(h, l) == [kind |-> "number", h |-> h, l |-> l]
undefined == [kind |-> "undefined", h |-> 0, l |-> 0]
NaN == [kind |-> "NaN", h |-> 0, l |-> 0]
\* "[object Object]..." : the string an object concatenates to under +
String == [kind |-> "string", h |-> 0, l |-> 0]
\* an abrupt completion: the operation threw a TypeError
TypeError == [kind |-> "TypeError", h |-> 0, l |-> 0]
\* no getter has been read since the last mutation
NoRead == [kind |-> "none", h |-> 0, l |-> 0]

\* { amount: n }
Adjustment(n) == [kind |-> "object", amount |-> n]

Abs(x) == IF x < 0 THEN -x ELSE x
Sgn(x) == IF x < 0 THEN -1 ELSE IF x > 0 THEN 1 ELSE 0

RECURSIVE Pow2(_)
Pow2(n) == IF n = 0 THEN 1 ELSE 2 * Pow2(n - 1)

RECURSIVE Log2(_)
\* floor(log2 k), k >= 1
Log2(k) == IF k < 2 THEN 0 ELSE 1 + Log2(k \div 2)

\* m rounded to the nearest multiple of u, a tie to the even quotient
RoundToMultiple(m, u) ==
    LET q == m \div u
        r == m % u
    IN  IF 2 * r < u THEN q * u
        ELSE IF 2 * r > u THEN (q + 1) * u
        ELSE IF q % 2 = 0 THEN q * u ELSE (q + 1) * u

\* The double nearest to the real number h * 2^53 + l (|l| far below 2^52).
\* Below 2^53 every integer is a double.  In [2^(53+j), 2^(54+j)) doubles are
\* 2^(j+1) apart; just below a power of two 2^(53+j) they are 2^j apart.
RoundToDouble(h, l) ==
    IF h = 0 THEN Number(0, l)
    ELSE LET k == Abs(h)
             s == Sgn(h)
             m == s * l
             j == Log2(k)
             ulp == IF m < 0 /\ k = Pow2(j) THEN Pow2(j) ELSE Pow2(j + 1)
         IN  Number(h, s * RoundToMultiple(m, ulp))

\* a + b
JSAdd(a, b) ==
    IF a.kind = "number" /\ b.kind = "number"
        THEN RoundToDouble(a.h + b.h, a.l + b.l)
    ELSE IF a.kind \in {"object", "string"} \/ b.kind \in {"object", "string"}
        THEN String
    ELSE NaN

\* a === b
StrictEquals(a, b) == a.kind # "NaN" /\ b.kind # "NaN" /\ a = b

\* Mutant of sumAmount: (sum, a) => a.amount, the running sum dropped.
sumAmount_lastOnly(sum, a) == a.amount

\* (sum, a) => sum + a.amount
sumAmount(sum, a) == JSAdd(sum, a.amount)

\* arr.reduce((sum, a) => sum + a.amount, initialValue?): initial is <<>> or
\* <<initialValue>>.  Array.prototype.reduce is a left fold; with no initial
\* value it starts from the first element and throws a TypeError on an empty
\* array.
reduce(arr, initial) ==
    LET n == Len(arr)
        from == IF Len(initial) = 0 THEN 1 ELSE 0
        acc[i \in from..n] ==
            IF i = from
                THEN (IF from = 0 THEN initial[1] ELSE arr[1])
                ELSE sumAmount(acc[i - 1], arr[i])
    IN  IF n = 0 /\ Len(initial) = 0 THEN TypeError ELSE acc[n]

----------------------------------------------------------------------------
(* single-source ProductionPlan *)

SS_constructor == [_adjustments |-> <<>>, _production |-> Number(0, 0)]

SS_production(p) == p._production

SS_calculatedProduction(p) ==
    reduce(p._adjustments, <<Number(0, 0)>>)

\* Mutant of SS_applyAdjustment: this._production = anAdjustment.amount.
SS_applyAdjustment_assign(p, anAdjustment) ==
    [p EXCEPT !._adjustments = Append(@, anAdjustment),
              !._production = anAdjustment.amount]

SS_applyAdjustment(p, anAdjustment) ==
    [p EXCEPT !._adjustments = Append(@, anAdjustment),
              !._production = JSAdd(@, anAdjustment.amount)]

(* multiple-sources ProductionPlan *)

MS_constructor(production) ==
    [_initialProduction |-> production, _adjustments |-> <<>>]

\* Mutant of MS_production: the sum alone, this._initialProduction left out.
MS_production_withoutInitial(p) ==
    reduce(p._adjustments, <<Number(0, 0)>>)

\* Mutant of MS_production: reduce called with no initial value.
MS_production_noInitialValue(p) ==
    LET s == reduce(p._adjustments, <<>>)
    IN  IF s.kind = "TypeError" THEN s ELSE JSAdd(p._initialProduction, s)

MS_production(p) ==
    LET s == reduce(p._adjustments, <<Number(0, 0)>>)
    IN  IF s.kind = "TypeError" THEN s ELSE JSAdd(p._initialProduction, s)

\* Mutant of MS_applyAdjustment: this._adjustments.unshift(anAdjustment).
MS_applyAdjustment_unshift(p, anAdjustment) ==
    [p EXCEPT !._adjustments = <<anAdjustment>> \o @]

\* Mutant of MS_applyAdjustment: the amount is also added into the baseline.
MS_applyAdjustment_intoInitial(p, anAdjustment) ==
    [p EXCEPT !._adjustments = Append(@, anAdjustment),
              !._initialProduction = JSAdd(@, anAdjustment.amount)]

MS_applyAdjustment(p, anAdjustment) ==
    [p EXCEPT !._adjustments = Append(@, anAdjustment)]

----------------------------------------------------------------------------
(* Inputs *)

\* 2^53 and -2^53, and the small integers
Amounts ==
    {Number(1, 0), Number(-1, 0)} \cup {Number(0, l) : l \in -MaxAmount..MaxAmount}

Adjustments == {Adjustment(n) : n \in Amounts}

\* new ProductionPlan() passes undefined
CtorArgs == {undefined} \cup Amounts

----------------------------------------------------------------------------
(* The state machine *)

Init ==
    /\ variant \in {"single", "multi"}
    /\ ctorArg \in (IF variant = "single" THEN {undefined} ELSE CtorArgs)
    /\ plan = (IF variant = "single" THEN SS_constructor ELSE MS_constructor(ctorArg))
    /\ applied = <<>>
    /\ lastOp = "constructor"
    /\ lastRead = NoRead
    /\ reads = 0

SingleApplyAdjustment ==
    /\ variant = "single"
    /\ Len(plan._adjustments) < MaxLen
    /\ \E a \in Adjustments :
          /\ plan' = SS_applyAdjustment(plan, a)
          /\ applied' = Append(applied, a)
    /\ lastOp' = "applyAdjustment"
    /\ lastRead' = NoRead
    /\ reads' = 0
    /\ UNCHANGED <<variant, ctorArg>>

MultiApplyAdjustment ==
    /\ variant = "multi"
    /\ Len(plan._adjustments) < MaxLen
    /\ \E a \in Adjustments :
          /\ plan' = MS_applyAdjustment(plan, a)
          /\ applied' = Append(applied, a)
    /\ lastOp' = "applyAdjustment"
    /\ lastRead' = NoRead
    /\ reads' = 0
    /\ UNCHANGED <<variant, ctorArg>>

SingleReadProduction ==
    /\ variant = "single"
    /\ reads < MaxReads
    /\ lastRead' = SS_production(plan)
    /\ lastOp' = "production"
    /\ reads' = reads + 1
    /\ UNCHANGED <<variant, ctorArg, plan, applied>>

SingleReadCalculatedProduction ==
    /\ variant = "single"
    /\ reads < MaxReads
    /\ lastRead' = SS_calculatedProduction(plan)
    /\ lastOp' = "calculatedProduction"
    /\ reads' = reads + 1
    /\ UNCHANGED <<variant, ctorArg, plan, applied>>

\* Mutant of MultiReadProduction: the getter folds what it computed back into
\* the object (this._initialProduction = the value returned).
MultiReadProduction_memoizing ==
    /\ variant = "multi"
    /\ reads < MaxReads
    /\ lastRead' = MS_production(plan)
    /\ plan' = [plan EXCEPT !._initialProduction = MS_production(plan)]
    /\ lastOp' = "production"
    /\ reads' = reads + 1
    /\ UNCHANGED <<variant, ctorArg, applied>>

MultiReadProduction ==
    /\ variant = "multi"
    /\ reads < MaxReads
    /\ lastRead' = MS_production(plan)
    /\ lastOp' = "production"
    /\ reads' = reads + 1
    /\ UNCHANGED <<variant, ctorArg, plan, applied>>

Next ==
    \/ SingleApplyAdjustment
    \/ MultiApplyAdjustment
    \/ SingleReadProduction
    \/ SingleReadCalculatedProduction
    \/ MultiReadProduction

Spec == Init /\ [][Next]_vars

----------------------------------------------------------------------------
(* Vocabulary of the properties *)

\* A number every sum of the model computes exactly: an integer below 2^53.
IsSafe(v) == v.kind = "number" /\ v.h = 0

AllSafe(adjs) == \A i \in 1..Len(adjs) : IsSafe(adjs[i].amount)

\* The baseline of the plan: the constructor argument, 0 for single-source.
Baseline == IF variant = "single" THEN Number(0, 0) ELSE ctorArg

RECURSIVE SumH(_)
SumH(adjs) == IF adjs = <<>> THEN 0 ELSE adjs[1].amount.h + SumH(Tail(adjs))

RECURSIVE SumL(_)
SumL(adjs) == IF adjs = <<>> THEN 0 ELSE adjs[1].amount.l + SumL(Tail(adjs))

\* baseline + sum of the amounts applied, as a real number (no rounding)
ExactTotal == Number(Baseline.h + SumH(applied), Baseline.l + SumL(applied))

\* The production getter of the plan's class.
Production(p) == IF variant = "single" THEN SS_production(p) ELSE MS_production(p)

RECURSIVE Replay(_, _)
\* A fresh plan of the same class and constructor argument, the adjustments
\* applied one by one.
Replay(p, adjs) ==
    IF adjs = <<>> THEN p
    ELSE Replay(IF variant = "single" THEN SS_applyAdjustment(p, adjs[1])
                ELSE MS_applyAdjustment(p, adjs[1]), Tail(adjs))

Fresh == IF variant = "single" THEN SS_constructor ELSE MS_constructor(ctorArg)

\* The orders of n calls.
Orders(n) == {f \in [1..n -> 1..n] : \A i, j \in 1..n : f[i] = f[j] => i = j}

Reordered(adjs, f) == [i \in 1..Len(adjs) |-> adjs[f[i]]]

IsPrefix(s, t) == Len(s) <= Len(t) /\ \A i \in 1..Len(s) : s[i] = t[i]

----------------------------------------------------------------------------
(* C1 *)

\* C1 as stated: for every numeric baseline and every sequence of
\* applyAdjustment calls, a production read returns baseline + sum of the
\* amounts.
C1_ProductionIsBaselinePlusSum ==
    (lastOp = "production" /\ Baseline.kind = "number") => lastRead = ExactTotal

\* C1 amended: a production read returns baseline + sum of the amounts
\* whenever the baseline and every amount are integers whose magnitudes sum
\* to less than 2^53, so that no addition rounds.
C1_ProductionIsBaselinePlusSumOfSafeIntegers ==
    (lastOp = "production" /\ IsSafe(Baseline) /\ AllSafe(applied))
        => lastRead = ExactTotal

C1_Witness ==
    /\ variant = "multi" /\ lastOp = "production"
    /\ IsSafe(ctorArg) /\ ctorArg.l # 0 /\ AllSafe(applied)
    /\ \E i, j \in 1..Len(applied) : applied[i].amount.l < 0 /\ applied[j].amount.l > 0
    /\ lastRead = ExactTotal

(* C2 *)

\* C2: with no adjustment applied production reads the initial production,
\* which is 0 when the multiple-sources constructor got no argument.
C2_EmptyPlanReadsInitialDefaultZero ==
    (lastOp = "production" /\ Len(plan._adjustments) = 0)
        => lastRead = (IF Baseline = undefined THEN Number(0, 0) ELSE Baseline)

(* C3 *)

\* C3: production has one source of truth: the object stores no accumulator
\* of the total (its only fields are the baseline and the adjustments), and a
\* production read returns the value derived from those two.
C3_SingleSourceOfTruth ==
    /\ DOMAIN plan \subseteq {"_initialProduction", "_adjustments"}
    /\ lastOp = "production" =>
          lastRead = JSAdd(Baseline, reduce(plan._adjustments, <<Number(0, 0)>>))

(* C4 *)

\* C4: applyAdjustment appends the given adjustment to _adjustments and
\* changes nothing else of the plan.
C4_ApplyOnlyAppends ==
    [][Len(applied') = Len(applied) + 1 =>
          plan' = [plan EXCEPT !._adjustments = Append(@, applied'[Len(applied')])]]_vars

(* C5 *)

\* C5: a getter read leaves the plan as it was, and a read that follows a read
\* of the same getter with no applyAdjustment between them returns the same
\* value.
C5_ReadsAreIdempotent ==
    [][reads' = reads + 1 =>
          /\ plan' = plan
          /\ (lastOp \in {"production", "calculatedProduction"} /\ lastOp' = lastOp)
                => lastRead' = lastRead]_vars

C5_Witness ==
    /\ lastOp = "production" /\ reads >= 2
    /\ Len(plan._adjustments) >= 1
    /\ lastRead.kind = "number" /\ lastRead # Number(0, 0)

(* C6 *)

\* C6 as stated: a plan built with the same initial production to which the
\* same adjustments are applied in any other order reads the same production.
C6_OrderIndependent ==
    (lastOp = "production" /\ Baseline.kind = "number") =>
        \A f \in Orders(Len(applied)) :
            Production(Replay(Fresh, Reordered(applied, f))) = lastRead

\* C6 amended: the same, whenever the initial production and every amount
\* are integers whose magnitudes sum to less than 2^53.
C6_OrderIndependentOnSafeIntegers ==
    (lastOp = "production" /\ IsSafe(Baseline) /\ AllSafe(applied)) =>
        \A f \in Orders(Len(applied)) :
            Production(Replay(Fresh, Reordered(applied, f))) = lastRead

C6_Witness ==
    /\ variant = "multi" /\ lastOp = "production"
    /\ IsSafe(ctorArg) /\ AllSafe(applied)
    /\ Len(applied) >= 3
    /\ \A i, j \in 1..Len(applied) : i # j => applied[i] # applied[j]
    /\ \E f \in Orders(Len(applied)) :
          /\ Reordered(applied, f) # applied
          /\ Production(Replay(Fresh, Reordered(applied, f))) = lastRead

(* C7 *)

\* C7: no operation on well-formed input raises an error: no getter read ends
\* in a thrown TypeError, whatever ran before.
C7_NoOperationThrows == lastRead.kind # "TypeError"

C7_Witness ==
    /\ variant = "multi" /\ lastOp = "production"
    /\ Len(plan._adjustments) = 0
    /\ lastRead.kind = "number"

(* C8 *)

\* C8: in the single-source plan _production === calculatedProduction in
\* every reachable state.
C8_ProductionEqualsCalculated ==
    variant = "single" =>
        StrictEquals(plan._production, SS_calculatedProduction(plan))

C8_Witness ==
    /\ variant = "single" /\ lastOp = "production"
    /\ Len(plan._adjustments) >= 2
    /\ \E i \in 1..Len(plan._adjustments) : plan._adjustments[i].amount.h # 0
    /\ \E i \in 1..Len(plan._adjustments) : plan._adjustments[i].amount.l # 0
    /\ lastRead = SS_calculatedProduction(plan)

(* C9 *)

\* C9: _adjustments is append-only: across every step the array before is a
\* prefix of the array after.
C9_AdjustmentsAppendOnly ==
    [][IsPrefix(plan._adjustments, plan'._adjustments)]_vars

C9_Witness ==
    /\ Len(plan._adjustments) >= 2
    /\ plan._adjustments[1] # plan._adjustments[2]
    /\ plan._adjustments = applied

(* C10 *)

\* C10: the multiple-sources plan's _initialProduction stays the value the
\* constructor was given.
C10_InitialProductionFixed ==
    variant = "multi" => plan._initialProduction = ctorArg

C10_Witness ==
    /\ variant = "multi" /\ lastOp = "production"
    /\ ctorArg.kind = "number"
    /\ \E i \in 1..Len(applied) : applied[i].amount # Number(0, 0)
    /\ plan._initialProduction = ctorArg

====
